---- MODULE Spec2Model ----
(***************************************************************************)
(* Model of the schema-synchronizing store (internal/store.go) and of the  *)
(* HTTP handlers in front of it (internal/server.go).                      *)
(*                                                                         *)
(* Names (tables, columns) are sequences of one-character strings so that  *)
(* the regular expressions of the error classifier can be evaluated on     *)
(* them.  A Go value is a record [k |-> dynamic type, v |-> payload].      *)
(* The SQL engine behind database/sql is modelled by the Engine*           *)
(* operators: catalog (tables, columns, column types) and rows.            *)
(***************************************************************************)
EXTENDS Integers, Sequences, FiniteSets, Bags, TLC

(* ------------------------------------------------------------------ *)
(* Bounds of the model                                                 *)
(* ------------------------------------------------------------------ *)
MaxCalls == 2
CountCap == 4

Writers == {"w1", "w2"}
Readers == {"r1", "r2"}
None == "none"

(* ------------------------------------------------------------------ *)
(* Go values and DataType                                              *)
(* ------------------------------------------------------------------ *)
(* v is the lexical form of the payload: the int 1 is [k |-> "int", v |-> "1"], *)
(* the string "1" is [k |-> "string", v |-> "1"].                              *)
IntV == [k |-> "int", v |-> "1"]
StrV == [k |-> "string", v |-> "x"]
NilV == [k |-> "nil", v |-> "null"]
Values == {IntV, StrV, NilV}

(* One value of each dynamic type a caller of the library can put in a    *)
(* column: the float and integer kinds, string, bool and nil.             *)
GoKinds == {"float64", "float32", "int", "int8", "int16", "int32", "int64",
            "uint", "string", "bool", "nil"}
GoValue(kind) ==
    [k |-> kind,
     v |-> CASE kind = "string" -> "x"
             [] kind = "bool" -> "true"
             [] kind = "nil" -> "null"
             [] OTHER -> "1"]
GoValues == {GoValue(kind) : kind \in GoKinds}

(* Names: sequences of characters. *)
RegexWordChars ==
    {"a","b","c","d","e","f","g","h","i","j","k","l","m","n","o","p","q","r","s",
     "t","u","v","w","x","y","z","A","B","C","D","E","F","G","H","I","J","K","L",
     "M","N","O","P","Q","R","S","T","U","V","W","X","Y","Z","_"}
NoName == << >>
TableT == <<"t">>
ColA == <<"a">>
ColB == <<"b">>
ColC == <<"c">>
TableT1 == <<"t", "1">>
ColC2 == <<"c", "2">>
TableNames == {TableT, NoName}
ColNames == {ColA, ColB}

INVALID == "INVALID"
VARCHAR == "VARCHAR"
DOUBLE == "DOUBLE"
INTEGER == "INTEGER"
BOOLEAN_ == "BOOLEAN"

NewDataType(in) ==
    CASE in.k \in {"float64", "float32"} -> DOUBLE
      [] in.k \in {"int", "int32", "int64"} -> INTEGER
      [] in.k = "string" -> VARCHAR
      [] in.k = "bool" -> BOOLEAN_
      [] OTHER -> INVALID

Valid(k) == k # INVALID

(* Mutant: every valid type is declared as VARCHAR. *)
DBTypeAllVarchar(k) == IF k = INVALID THEN "" ELSE VARCHAR

DBType(k) == IF k = INVALID THEN "" ELSE k

(* ------------------------------------------------------------------ *)
(* Statements and their builders                                      *)
(* ------------------------------------------------------------------ *)
(* The values the requests of the model carry in each column. *)
ValuesOf(c) == IF c = ColA THEN {IntV, StrV} ELSE {StrV, NilV}
ColumnMaps ==
    {m \in UNION {[cs -> Values] : cs \in SUBSET ColNames} :
        \A c \in DOMAIN m : m[c] \in ValuesOf(c)}
InsertStatements ==
    [Table : {TableT}, Columns : ColumnMaps]
        \cup [Table : {NoName}, Columns : [{ColA} -> ValuesOf(ColA)]]

(* Statements over three columns, for calls that lack several columns. *)
GapValuesOf(c) == IF c = ColA THEN {IntV, StrV} ELSE {StrV}
GapStatements ==
    {[Table |-> TableT, Columns |-> m] :
        m \in {x \in UNION {[cs -> Values] : cs \in SUBSET {ColA, ColB, ColC}} :
                  /\ DOMAIN x # {}
                  /\ \A c \in DOMAIN x : x[c] \in GapValuesOf(c)}}

(* Statements with a column holding a value of any dynamic type, alone or *)
(* next to a text column.                                                 *)
TypedStatements ==
    {[Table |-> TableT, Columns |-> [c \in cs |-> IF c = ColA THEN v ELSE StrV]] :
        v \in GoValues, cs \in {{ColA}, {ColA, ColB}}}

(* Statements whose table or column names contain a digit. *)
DigitStatements ==
    {[Table |-> t, Columns |-> [c \in cs |-> StrV]] :
        t \in {TableT, TableT1}, cs \in (SUBSET {ColA, ColC2}) \ {{}}}

Keys(stmt) == DOMAIN stmt.Columns

(* All orders in which `range s.Columns` can visit the keys. *)
KeyOrders(stmt) ==
    {o \in [1..Cardinality(Keys(stmt)) -> Keys(stmt)] :
        \A i, j \in DOMAIN o : i # j => o[i] # o[j]}

NoErr == [kind |-> "nil", table |-> NoName, column |-> NoName]
Err(kind, table, column) == [kind |-> kind, table |-> table, column |-> column]

(* InsertStatement.Validate *)
Validate(stmt) ==
    IF stmt.Table = NoName THEN Err("Validation: missing Table name", NoName, NoName)
    ELSE IF Cardinality(Keys(stmt)) = 0 THEN Err("Validation: no Columns", NoName, NoName)
    ELSE NoErr

(* Mutant: keys and values collected by two separate iterations of the *)
(* map, here in opposite orders.                                        *)
InsertQueryTwoIterations(stmt, order) ==
    [sql |-> "INSERT INTO",
     table |-> stmt.Table,
     keys |-> order,
     placeholders |-> [i \in DOMAIN order |-> "?"],
     values |-> [i \in DOMAIN order |-> stmt.Columns[order[Len(order) + 1 - i]]],
     err |-> NoErr]

(* InsertStatement.Query, for one iteration order of the map: the INSERT *)
(* text (table, column list, one placeholder per column), the            *)
(* parameter list and the error, which is always nil.                    *)
InsertQuery(stmt, order) ==
    [sql |-> "INSERT INTO",
     table |-> stmt.Table,
     keys |-> order,
     placeholders |-> [i \in DOMAIN order |-> "?"],
     values |-> [i \in DOMAIN order |-> stmt.Columns[order[i]]],
     err |-> NoErr]

(* Mutant: a CREATE TABLE that skips the columns of invalid type. *)
CreateTableQueryStringPartial(stmt) ==
    [sql |-> "CREATE TABLE IF NOT EXISTS",
     table |-> stmt.Table,
     cols |-> [c \in {k \in Keys(stmt) : Valid(NewDataType(stmt.Columns[k]))} |->
                  DBType(NewDataType(stmt.Columns[c]))],
     err |-> NoErr]

(* Mutant: a CREATE TABLE that declares one of the columns only. *)
CreateTableQueryStringOneColumn(stmt) ==
    IF \E c \in Keys(stmt) : ~Valid(NewDataType(stmt.Columns[c]))
    THEN [sql |-> "", table |-> NoName, cols |-> << >>,
          err |-> Err("create Table: invalid data type for column", stmt.Table,
                      CHOOSE c \in Keys(stmt) : ~Valid(NewDataType(stmt.Columns[c])))]
    ELSE [sql |-> "CREATE TABLE IF NOT EXISTS",
          table |-> stmt.Table,
          cols |-> IF Keys(stmt) = {} THEN << >>
                   ELSE [c \in {CHOOSE k \in Keys(stmt) : TRUE} |->
                            DBType(NewDataType(stmt.Columns[c]))],
          err |-> NoErr]

(* InsertStatement.CreateTableQueryString: the column definitions do not *)
(* depend on the iteration order beyond their position in the text.      *)
CreateTableQueryString(stmt) ==
    IF \E c \in Keys(stmt) : ~Valid(NewDataType(stmt.Columns[c]))
    THEN [sql |-> "", table |-> NoName, cols |-> << >>,
          err |-> Err("create Table: invalid data type for column", stmt.Table,
                      CHOOSE c \in Keys(stmt) : ~Valid(NewDataType(stmt.Columns[c])))]
    ELSE [sql |-> "CREATE TABLE IF NOT EXISTS",
          table |-> stmt.Table,
          cols |-> [c \in Keys(stmt) |-> DBType(NewDataType(stmt.Columns[c]))],
          err |-> NoErr]

(* InsertStatement.AddColumnQueryString *)
AddColumnQueryString(stmt, name) ==
    IF name \notin Keys(stmt)
    THEN [sql |-> "", table |-> NoName, cols |-> << >>,
          err |-> Err("add column: column not present in InsertStatement", stmt.Table, name)]
    ELSE IF ~Valid(NewDataType(stmt.Columns[name]))
    THEN [sql |-> "", table |-> NoName, cols |-> << >>,
          err |-> Err("add column: invalid data type for column", stmt.Table, name)]
    ELSE [sql |-> "ALTER TABLE ADD COLUMN",
          table |-> stmt.Table,
          cols |-> [c \in {name} |-> DBType(NewDataType(stmt.Columns[name]))],
          err |-> NoErr]

(* ------------------------------------------------------------------ *)
(* The SQL engine reached through database/sql (ExecContext,           *)
(* QueryContext): a catalog of tables, each with typed columns and a   *)
(* bag of rows.  A statement is parsed, then bound against the         *)
(* catalog, then executed; the first failing phase gives the error.    *)
(* ------------------------------------------------------------------ *)
Null == [t |-> "NULL", v |-> "null"]
IntTexts == {"0", "1", "2"}
BoolTexts == {"true", "false"}

(* Conversion of a bound parameter to the type of its column. *)
Cast(val, type) ==
    IF val.k = "nil" THEN [ok |-> TRUE, val |-> Null]
    ELSE IF type = VARCHAR THEN [ok |-> TRUE, val |-> [t |-> type, v |-> val.v]]
    ELSE IF val.k = "string"
    THEN [ok |-> \/ type \in {INTEGER, DOUBLE} /\ val.v \in IntTexts
                 \/ type = BOOLEAN_ /\ val.v \in BoolTexts,
          val |-> [t |-> type, v |-> val.v]]
    ELSE IF val.k = "bool" /\ type # BOOLEAN_
    THEN [ok |-> TRUE, val |-> [t |-> type, v |-> IF val.v = "true" THEN "1" ELSE "0"]]
    ELSE IF val.k # "bool" /\ type = BOOLEAN_
    THEN [ok |-> TRUE, val |-> [t |-> type, v |-> IF val.v = "0" THEN "false" ELSE "true"]]
    ELSE [ok |-> TRUE, val |-> [t |-> type, v |-> val.v]]

ParserError(table) == Err("Parser Error: syntax error", table, NoName)
CatalogTableMissing(table) ==
    Err("Catalog Error: Table with name does not exist!", table, NoName)
BinderColumnMissing(table, column) ==
    Err("Binder Error: Table does not have a column with name", table, column)
ConversionError(table, column) ==
    Err("Conversion Error: could not convert value", table, column)
ColumnExists(table, column) ==
    Err("Catalog Error: Column with name already exists!", table, column)
ContextCanceled == Err("context canceled", NoName, NoName)

FirstIndex(q, P(_)) == CHOOSE i \in DOMAIN q.keys :
    P(i) /\ \A j \in DOMAIN q.keys : P(j) => i <= j

(* ExecContext of an INSERT built by InsertQuery. *)
EngineInsert(tbls, q) ==
    LET cols == tbls[q.table].cols
        Missing(i) == q.keys[i] \notin DOMAIN cols
        Bad(i) == ~Cast(q.values[i], cols[q.keys[i]]).ok
        Pos(c) == CHOOSE i \in DOMAIN q.keys : q.keys[i] = c
        row == [c \in DOMAIN cols |->
                   IF \E i \in DOMAIN q.keys : q.keys[i] = c
                   THEN Cast(q.values[Pos(c)], cols[c]).val
                   ELSE Null]
    IN  IF q.table = NoName \/ Len(q.keys) = 0
        THEN [err |-> ParserError(q.table), tables |-> tbls]
        ELSE IF q.table \notin DOMAIN tbls
        THEN [err |-> CatalogTableMissing(q.table), tables |-> tbls]
        ELSE IF \E i \in DOMAIN q.keys : Missing(i)
        THEN [err |-> BinderColumnMissing(q.table, q.keys[FirstIndex(q, Missing)]),
              tables |-> tbls]
        ELSE IF \E i \in DOMAIN q.keys : Bad(i)
        THEN [err |-> ConversionError(q.table, q.keys[FirstIndex(q, Bad)]),
              tables |-> tbls]
        ELSE [err |-> NoErr,
              tables |-> [tbls EXCEPT ![q.table].rows = @ (+) SetToBag({row})]]

(* ExecContext of a CREATE TABLE IF NOT EXISTS. *)
EngineCreateTable(tbls, q) ==
    IF q.table = NoName \/ DOMAIN q.cols = {}
    THEN [err |-> ParserError(q.table), tables |-> tbls]
    ELSE IF q.table \in DOMAIN tbls
    THEN [err |-> NoErr, tables |-> tbls]
    ELSE [err |-> NoErr,
          tables |-> [t \in DOMAIN tbls \cup {q.table} |->
                        IF t = q.table THEN [cols |-> q.cols, rows |-> EmptyBag]
                        ELSE tbls[t]]]

(* ExecContext of an ALTER TABLE ... ADD COLUMN: existing rows get NULL. *)
EngineAddColumn(tbls, q) ==
    LET name == CHOOSE c \in DOMAIN q.cols : TRUE
        old == tbls[q.table]
        Widen(r) == [c \in DOMAIN old.cols \cup {name} |->
                        IF c = name THEN Null ELSE r[c]]
        Narrow(r) == [c \in DOMAIN old.cols |-> r[c]]
    IN  IF q.table = NoName
        THEN [err |-> ParserError(q.table), tables |-> tbls]
        ELSE IF q.table \notin DOMAIN tbls
        THEN [err |-> CatalogTableMissing(q.table), tables |-> tbls]
        ELSE IF name \in DOMAIN old.cols
        THEN [err |-> ColumnExists(q.table, name), tables |-> tbls]
        ELSE [err |-> NoErr,
              tables |-> [tbls EXCEPT ![q.table] =
                  [cols |-> [c \in DOMAIN old.cols \cup {name} |->
                                IF c = name THEN q.cols[name] ELSE old.cols[c]],
                   rows |-> [r \in {Widen(x) : x \in DOMAIN old.rows} |->
                                old.rows[Narrow(r)]]]]]

(* QueryContext of "select * from <table>": column names and rows. *)
EngineQuery(tbls, qs) ==
    IF qs.table = NoName
    THEN [err |-> ParserError(qs.table), cols |-> {}, rows |-> EmptyBag]
    ELSE IF qs.table \notin DOMAIN tbls
    THEN [err |-> CatalogTableMissing(qs.table), cols |-> {}, rows |-> EmptyBag]
    ELSE [err |-> NoErr, cols |-> DOMAIN tbls[qs.table].cols,
          rows |-> tbls[qs.table].rows]

(* ------------------------------------------------------------------ *)
(* Error classifier: missingTableRegex, missingColumnRegex             *)
(* ------------------------------------------------------------------ *)
RegexWord(name) == Len(name) >= 1 /\ \A i \in DOMAIN name : name[i] \in RegexWordChars

(* Mutant: a pattern that matches no engine message. *)
missingTableRegexNoMatch(err) == FALSE

(* Mutant: a pattern that matches every error naming a table. *)
missingTableRegexLoose(err) == RegexWord(err.table)

missingTableRegex(err) ==
    /\ err.kind = "Catalog Error: Table with name does not exist!"
    /\ RegexWord(err.table)

(* Mutant: a pattern that matches no engine message. *)
missingColumnRegexNoMatch(err) == FALSE

(* Mutant: a pattern that also matches other errors naming a column. *)
missingColumnRegexLoose(err) ==
    /\ RegexWord(err.table)
    /\ RegexWord(err.column)

missingColumnRegex(err) ==
    /\ err.kind = "Binder Error: Table does not have a column with name"
    /\ RegexWord(err.table)
    /\ RegexWord(err.column)

(* ------------------------------------------------------------------ *)
(* State                                                               *)
(* ------------------------------------------------------------------ *)
VARIABLES
    tables,     \* the engine's catalog: table name -> [cols, rows]
    engine,     \* "faithful": the engine answers from its catalog;
                \* "arbitrary": it may answer an INSERT with a missing-X error
    writeLock,  \* Store.writeLock: None or the writer holding it
    pc,         \* writer -> position in HandleData / Store.Insert
    stmt,       \* writer -> the InsertStatement of its call
    query,      \* writer -> the INSERT built by stmt.Query()
    ddl,        \* writer -> the DDL statement about to be executed
    status,     \* writer -> "direct" call, or the HTTP status HandleData wrote
    nInsert,    \* writer -> INSERT execs issued by its current call
    nCreate,    \* writer -> CREATE TABLE execs issued by its current call
    nAlter,     \* writer -> ALTER TABLE execs issued by its current call
    atLock,     \* the catalog when the current lock holder acquired the lock
    calls,      \* number of write requests started
    returned,   \* the write requests that returned, in order, with their outcome
    rpc,        \* reader -> position in Store.Query
    rstmt,      \* reader -> its QueryStatement
    rresult     \* reader -> what Store.Query returned

wvars == <<pc, stmt, query, ddl, status, nInsert, nCreate, nAlter>>
rvars == <<rpc, rstmt, rresult>>
vars == <<tables, engine, writeLock, wvars, atLock, calls, returned, rvars>>

Pending == Err("pending", NoName, NoName)
NotCalled == Err("not called", NoName, NoName)
NoQuery == [sql |-> "", table |-> NoName, keys |-> << >>, placeholders |-> << >>,
            values |-> << >>, err |-> NoErr]
NoDDL == [sql |-> "", table |-> NoName, cols |-> << >>, err |-> NoErr]
NoStmt == [Table |-> NoName, Columns |-> << >>]

EmptyQueryStatement == [Query |-> "", table |-> NoName]
SelectAll(t) == [Query |-> "select * from", table |-> t]
QueryStatements == {EmptyQueryStatement} \cup {SelectAll(t) : t \in TableNames \ {NoName}}
NoRows == [err |-> Pending, cols |-> {}, rows |-> EmptyBag]

(* Mutant: the error is dropped and nil is returned in its place. *)
WrapDropsError(op, err) == [kind |-> "nil", table |-> NoName, column |-> NoName, op |-> op]

(* fmt.Errorf("<op>: %w", err): the wrapped error keeps its cause. *)
Wrap(op, err) == [kind |-> err.kind, table |-> err.table, column |-> err.column, op |-> op]
Plain(err) == Wrap("", err)

Bump(n) == IF n < CountCap THEN n + 1 ELSE n

InitEngine(e) ==
    /\ tables = << >>
    /\ engine = e
    /\ writeLock = None
    /\ pc = [w \in Writers |-> "idle"]
    /\ stmt = [w \in Writers |-> NoStmt]
    /\ query = [w \in Writers |-> NoQuery]
    /\ ddl = [w \in Writers |-> NoDDL]
    /\ status = [w \in Writers |-> "direct"]
    /\ nInsert = [w \in Writers |-> 0]
    /\ nCreate = [w \in Writers |-> 0]
    /\ nAlter = [w \in Writers |-> 0]
    /\ atLock = << >>
    /\ calls = 0
    /\ returned = << >>
    /\ rpc = [r \in Readers |-> "idle"]
    /\ rstmt = [r \in Readers |-> EmptyQueryStatement]
    /\ rresult = [r \in Readers |-> NoRows]

Init == InitEngine("faithful")
InitArbitrary == InitEngine("arbitrary")

(* ------------------------------------------------------------------ *)
(* Write path: Server.HandleData and Store.Insert                      *)
(* ------------------------------------------------------------------ *)
JSONKinds == {"float64", "string", "bool", "nil", "object", "array"}
JSONStatements ==
    {s \in InsertStatements : \A c \in Keys(s) : s.Columns[c].k \in JSONKinds}

(* The caller's frame is gone once its request returned. *)
Forget(w) ==
    /\ pc' = [pc EXCEPT ![w] = "idle"]
    /\ stmt' = [stmt EXCEPT ![w] = NoStmt]
    /\ query' = [query EXCEPT ![w] = NoQuery]
    /\ ddl' = [ddl EXCEPT ![w] = NoDDL]
    /\ status' = [status EXCEPT ![w] = "direct"]
    /\ nInsert' = [nInsert EXCEPT ![w] = 0]
    /\ nCreate' = [nCreate EXCEPT ![w] = 0]
    /\ nAlter' = [nAlter EXCEPT ![w] = 0]

StartCall(w, s, code) ==
    /\ pc[w] = "idle"
    /\ calls < MaxCalls
    /\ calls' = calls + 1
    /\ pc' = [pc EXCEPT ![w] = "lock"]
    /\ stmt' = [stmt EXCEPT ![w] = s]
    /\ status' = [status EXCEPT ![w] = code]
    /\ UNCHANGED <<tables, engine, writeLock, query, ddl, nInsert, nCreate, nAlter,
                   atLock, returned, rvars>>

(* A caller invokes Store.Insert(ctx, stmt) and reaches writeLock.Lock(). *)
Insert(w) ==
    \E s \in InsertStatements : StartCall(w, s, "direct")

(* The same, with a statement that passes Validate and has typed values. *)
ValidTyped(s) == \A c \in Keys(s) : Valid(NewDataType(s.Columns[c]))
InsertValid(w) ==
    \E s \in {x \in InsertStatements : Validate(x) = NoErr /\ ValidTyped(x)} :
        StartCall(w, s, "direct")

(* Calls of the library with the statements of the three other families. *)
InsertGap(w) == \E s \in GapStatements : StartCall(w, s, "direct")
InsertTyped(w) == \E s \in TypedStatements : StartCall(w, s, "direct")
InsertDigits(w) == \E s \in DigitStatements : StartCall(w, s, "direct")

(* POST /data with a body that decodes: the statement is validated, a    *)
(* validation failure is written to the response, and Store.Insert is    *)
(* called.                                                               *)
HandleData(w) ==
    \E s \in JSONStatements :
        StartCall(w, s, IF Validate(s) # NoErr THEN "400" ELSE "unwritten")

(* POST /data with a body that does not decode: 400, no store call. *)
HandleDataBadBody(w) ==
    /\ pc[w] = "idle"
    /\ calls < MaxCalls
    /\ calls' = calls + 1
    /\ returned' = Append(returned,
          [w |-> w, stmt |-> NoStmt, err |-> Plain(NotCalled), status |-> "400",
           nInsert |-> 0, nCreate |-> 0, nAlter |-> 0,
           before |-> tables, after |-> tables])
    /\ UNCHANGED <<tables, engine, writeLock, wvars, atLock, rvars>>

(* Mutant: Lock() that never blocks. *)
MutexNeverBlocks(w) == TRUE

(* sync.Mutex: Lock() returns only when no one holds the mutex. *)
MutexFree(w) == writeLock = None

(* Mutant: a return path that skips Unlock(). *)
StillLocked(w) == w

(* The lock holder after Store.Insert returned: `defer Unlock()`. *)
Unlocked(w) == None

(* Store.Insert returns err to its caller after ins INSERT, cre CREATE    *)
(* TABLE and alt ALTER TABLE execs; HandleData writes the status unless   *)
(* one was written before.                                                *)
Return(w, err, ins, cre, alt) ==
    /\ returned' = Append(returned,
          [w |-> w, stmt |-> stmt[w], err |-> err,
           status |-> IF status[w] = "unwritten"
                      THEN (IF err.kind = "nil" THEN "200" ELSE "500")
                      ELSE status[w],
           nInsert |-> ins, nCreate |-> cre, nAlter |-> alt,
           before |-> atLock, after |-> tables'])
    /\ writeLock' = Unlocked(w)
    /\ atLock' = << >>
    /\ Forget(w)

(* writeLock.Lock() succeeds, then stmt.Query() builds the INSERT. *)
Lock(w) ==
    /\ pc[w] = "lock"
    /\ MutexFree(w)
    /\ tables' = tables
    /\ \E order \in KeyOrders(stmt[w]) :
         LET q == InsertQuery(stmt[w], order) IN
         IF q.err # NoErr
         THEN Return(w, Plain(q.err), 0, 0, 0)
         ELSE /\ writeLock' = w
              /\ atLock' = tables
              /\ query' = [query EXCEPT ![w] = q]
              /\ pc' = [pc EXCEPT ![w] = "exec"]
              /\ UNCHANGED <<stmt, ddl, status, nInsert, nCreate, nAlter, returned>>
    /\ UNCHANGED <<engine, calls, rvars>>

(* ExecContext(ctx, ...): the engine's answer, or the context's error when *)
(* the caller's context is canceled before the statement takes effect.     *)
Canceled == [err |-> ContextCanceled, tables |-> tables]

(* An engine whose answer to an INSERT is not bound to its catalog: it *)
(* may report the table or any of the columns missing.                 *)
ArbitraryInsert(q) ==
    {[err |-> e, tables |-> tables] :
        e \in {CatalogTableMissing(q.table)}
               \cup {BinderColumnMissing(q.table, q.keys[i]) : i \in DOMAIN q.keys}}

(* What ExecContext can answer to the INSERT. *)
InsertOutcomes(w) ==
    {EngineInsert(tables, query[w]), Canceled}
        \cup (IF engine = "arbitrary" THEN ArbitraryInsert(query[w]) ELSE {})

(* What ExecContext can answer to a DDL statement. *)
DDLOutcomes(w, applied) == {applied, Canceled}

(* The loop of Store.Insert goes on to a DDL exec. *)
Recover(w, to, q) ==
    /\ pc' = [pc EXCEPT ![w] = to]
    /\ ddl' = [ddl EXCEPT ![w] = q]
    /\ nInsert' = [nInsert EXCEPT ![w] = Bump(@)]
    /\ UNCHANGED <<writeLock, stmt, query, status, nCreate, nAlter, atLock, returned>>

(* One iteration of the loop of Store.Insert: ExecContext of the INSERT; *)
(* on an error, handleInsertError classifies it and builds the DDL.      *)
ExecInsert(w) ==
    /\ pc[w] = "exec"
    /\ \E out \in InsertOutcomes(w) :
         /\ tables' = out.tables
         /\ LET ins == Bump(nInsert[w])
                Fail(err) == Return(w, err, ins, nCreate[w], nAlter[w])
            IN  IF out.err = NoErr
                THEN Return(w, Plain(NoErr), ins, nCreate[w], nAlter[w])
                ELSE IF missingTableRegex(out.err)
                THEN LET q == CreateTableQueryString(stmt[w]) IN
                     IF q.err # NoErr THEN Fail(Plain(q.err)) ELSE Recover(w, "create", q)
                ELSE IF missingColumnRegex(out.err)
                THEN LET q == AddColumnQueryString(stmt[w], out.err.column) IN
                     IF q.err # NoErr THEN Fail(Plain(q.err)) ELSE Recover(w, "addcol", q)
                ELSE Fail(Wrap("inserting values", out.err))
    /\ UNCHANGED <<engine, calls, rvars>>

(* Store.CreateTable: ExecContext of the CREATE TABLE. *)
ExecCreateTable(w) ==
    /\ pc[w] = "create"
    /\ \E out \in DDLOutcomes(w, EngineCreateTable(tables, ddl[w])) :
         /\ tables' = out.tables
         /\ IF out.err # NoErr
            THEN Return(w, Wrap("creating Table", out.err),
                        nInsert[w], Bump(nCreate[w]), nAlter[w])
            ELSE /\ pc' = [pc EXCEPT ![w] = "exec"]
                 /\ ddl' = [ddl EXCEPT ![w] = NoDDL]
                 /\ nCreate' = [nCreate EXCEPT ![w] = Bump(@)]
                 /\ UNCHANGED <<writeLock, stmt, query, status, nInsert, nAlter,
                                atLock, returned>>
    /\ UNCHANGED <<engine, calls, rvars>>

(* Store.AddColumn: ExecContext of the ALTER TABLE. *)
ExecAddColumn(w) ==
    /\ pc[w] = "addcol"
    /\ \E out \in DDLOutcomes(w, EngineAddColumn(tables, ddl[w])) :
         /\ tables' = out.tables
         /\ IF out.err # NoErr
            THEN Return(w, Wrap("creating Table", out.err),
                        nInsert[w], nCreate[w], Bump(nAlter[w]))
            ELSE /\ pc' = [pc EXCEPT ![w] = "exec"]
                 /\ ddl' = [ddl EXCEPT ![w] = NoDDL]
                 /\ nAlter' = [nAlter EXCEPT ![w] = Bump(@)]
                 /\ UNCHANGED <<writeLock, stmt, query, status, nInsert, nCreate,
                                atLock, returned>>
    /\ UNCHANGED <<engine, calls, rvars>>

(* ------------------------------------------------------------------ *)
(* Read path: Store.Query                                              *)
(* ------------------------------------------------------------------ *)
(* Mutant: a validation that lets the empty query through. *)
QueryValidAcceptsEmpty(qs) == NoErr

(* QueryStatement.Valid *)
QueryValid(qs) ==
    IF qs.Query = "" THEN Err("invalid QueryStatement: Query empty", NoName, NoName)
    ELSE NoErr

(* Mutant: Store.Query serialized behind the write lock. *)
QueryWaitsForWriteLock(r) == writeLock = None

(* Store.Query takes no lock: nothing to wait for. *)
QueryMayRun(r) == TRUE

(* Mutant: every column of a scanned row gets the value of one column. *)
StoreQueryFirstValue(tbls, qs) ==
    LET res == EngineQuery(tbls, qs)
        first == CHOOSE c \in res.cols : TRUE
    IN
    [err |-> IF res.err = NoErr THEN NoErr ELSE Wrap("query", res.err),
     cols |-> res.cols,
     rows |-> [m \in {[c \in res.cols |-> row[first]] : row \in DOMAIN res.rows} |->
                  1]]

(* QueryContext, then every row is scanned into a map column -> value. *)
StoreQuery(tbls, qs) ==
    LET res == EngineQuery(tbls, qs) IN
    [err |-> IF res.err = NoErr THEN NoErr ELSE Wrap("query", res.err),
     cols |-> res.cols,
     rows |-> [m \in {[c \in res.cols |-> row[c]] : row \in DOMAIN res.rows} |->
                  res.rows[m]]]

(* Store.Query is called: the statement is validated. *)
Query(r) ==
    /\ rpc[r] \in {"idle", "done"}
    /\ QueryMayRun(r)
    /\ \E qs \in QueryStatements :
         /\ rstmt' = [rstmt EXCEPT ![r] = qs]
         /\ IF QueryValid(qs) # NoErr
            THEN /\ rpc' = [rpc EXCEPT ![r] = "done"]
                 /\ rresult' = [rresult EXCEPT ![r] =
                        [err |-> QueryValid(qs), cols |-> {}, rows |-> EmptyBag]]
            ELSE /\ rpc' = [rpc EXCEPT ![r] = "query"]
                 /\ rresult' = [rresult EXCEPT ![r] = NoRows]
    /\ UNCHANGED <<tables, engine, writeLock, wvars, atLock, calls, returned>>

(* The engine answers the query and Store.Query returns the rows. *)
ExecQuery(r) ==
    /\ rpc[r] = "query"
    /\ QueryMayRun(r)
    /\ rresult' = [rresult EXCEPT ![r] = StoreQuery(tables, rstmt[r])]
    /\ rpc' = [rpc EXCEPT ![r] = "done"]
    /\ UNCHANGED <<tables, engine, writeLock, wvars, atLock, calls, returned, rstmt>>

WriterStep(w) ==
    \/ Lock(w)
    \/ ExecInsert(w)
    \/ ExecCreateTable(w)
    \/ ExecAddColumn(w)

ReaderStep(r) ==
    \/ Query(r)
    \/ ExecQuery(r)

(* The store used as a library: callers invoke Insert. *)
Next ==
    \E w \in Writers : Insert(w) \/ WriterStep(w)

Spec == Init /\ [][Next]_vars

(* The store behind the HTTP server: POST /data handlers invoke Insert. *)
NextServer ==
    \E w \in Writers : HandleData(w) \/ HandleDataBadBody(w) \/ WriterStep(w)

SpecServer == Init /\ [][NextServer]_vars

(* One writer and concurrent readers. *)
NextReads ==
    \/ InsertValid("w1") \/ WriterStep("w1")
    \/ \E r \in Readers : ReaderStep(r)

SpecReads == Init /\ [][NextReads]_vars

(* One caller against an engine that may answer anything; a call that *)
(* has been made keeps running.                                        *)
NextArbitrary == InsertValid("w1") \/ WriterStep("w1")

FairSpecArbitrary ==
    InitArbitrary /\ [][NextArbitrary]_vars /\ WF_vars(WriterStep("w1"))

(* One caller whose statements may lack several columns of the table. *)
NextGap == InsertGap("w1") \/ WriterStep("w1")

SpecGap == Init /\ [][NextGap]_vars

(* One caller whose column values are of any dynamic type. *)
NextTypes == InsertTyped("w1") \/ WriterStep("w1")

SpecTypes == Init /\ [][NextTypes]_vars

(* One caller whose table and column names may contain digits. *)
NextDigits == InsertDigits("w1") \/ WriterStep("w1")

SpecDigits == Init /\ [][NextDigits]_vars

TypeOK ==
    /\ writeLock \in Writers \cup {None}
    /\ \A w \in Writers : pc[w] \in {"idle", "lock", "exec", "create", "addcol"}
    /\ calls \in 0..MaxCalls
    /\ Len(returned) <= calls

(* ------------------------------------------------------------------ *)
(* Properties                                                          *)
(* ------------------------------------------------------------------ *)
Critical(w) == pc[w] \in {"exec", "create", "addcol"}
Returned == {returned[i] : i \in DOMAIN returned}
NotCanceled(e) == e.err.kind # ContextCanceled.kind
Succeeded(e) == e.err.kind = NoErr.kind
RowCount(tbls, t) == IF t \in DOMAIN tbls THEN BagCardinality(tbls[t].rows) ELSE 0
Columns(tbls, t) == IF t \in DOMAIN tbls THEN DOMAIN tbls[t].cols ELSE {}
Stored(val) == [t |-> NewDataType(val), v |-> val.v]

(* C1: writes are globally serialized: from its first engine call to its *)
(* return an Insert holds the write lock, so two Inserts are never both  *)
(* between their first and last engine call.                             *)
C1_WritesSerialized ==
    /\ \A w \in Writers : Critical(w) => writeLock = w
    /\ \A w1, w2 \in Writers : w1 # w2 => ~(Critical(w1) /\ Critical(w2))

C1_Witness ==
    \E w1, w2 \in Writers :
        /\ w1 # w2
        /\ pc[w1] = "create" /\ nInsert[w1] >= 1
        /\ pc[w2] = "lock"

(* C2: one Insert per writer, all into the table that did not exist, with *)
(* valid-typed values and each with a column no other call supplies: all  *)
(* succeed, the schema is the union of the columns and there is one row   *)
(* per call.                                                              *)
C2_Case ==
    /\ calls = Cardinality(Writers)
    /\ Len(returned) = Cardinality(Writers)
    /\ \A w \in Writers : \E e \in Returned : e.w = w
    /\ \A e \in Returned :
         /\ e.stmt.Table = TableT
         /\ ValidTyped(e.stmt)
         /\ NotCanceled(e)
         /\ \E c \in Keys(e.stmt) :
               \A o \in Returned : o.w # e.w => c \notin Keys(o.stmt)

C2_ConcurrentDisjointInserts ==
    C2_Case =>
        /\ \A e \in Returned : Succeeded(e)
        /\ Columns(tables, TableT) = UNION {Keys(e.stmt) : e \in Returned}
        /\ RowCount(tables, TableT) = Cardinality(Writers)

C2_Witness ==
    /\ C2_Case
    /\ \A e \in Returned : Succeeded(e)
    /\ RowCount(tables, TableT) = Cardinality(Writers)

(* C3: schema widening.  When every Insert so far into the table was      *)
(* valid-typed, type-consistent per column and not canceled, every one    *)
(* succeeded, the columns are the union of the calls' columns with the    *)
(* types of their values, and a read returns one row per call with NULL   *)
(* in the columns the call did not supply.                                *)
OnTable == SelectSeq(returned, LAMBDA e : e.stmt.Table = TableT /\ e.stmt # NoStmt)
OnTableSet == {OnTable[i] : i \in DOMAIN OnTable}

TypeConsistent(es) ==
    \A e1, e2 \in es : \A c \in Keys(e1.stmt) \cap Keys(e2.stmt) :
        NewDataType(e1.stmt.Columns[c]) = NewDataType(e2.stmt.Columns[c])

ExpectedRow(e, cols) ==
    [c \in cols |-> IF c \in Keys(e.stmt) THEN Stored(e.stmt.Columns[c]) ELSE Null]

RECURSIVE ExpectedRows(_, _)
ExpectedRows(es, cols) ==
    IF es = << >> THEN EmptyBag
    ELSE SetToBag({ExpectedRow(Head(es), cols)}) (+) ExpectedRows(Tail(es), cols)

C3_Case ==
    /\ writeLock = None
    /\ OnTable # << >>
    /\ \A e \in OnTableSet :
          Validate(e.stmt) = NoErr /\ ValidTyped(e.stmt) /\ NotCanceled(e)
    /\ TypeConsistent(OnTableSet)

C3_SchemaWidening ==
    C3_Case =>
        LET cols == UNION {Keys(e.stmt) : e \in OnTableSet}
            read == StoreQuery(tables, SelectAll(TableT))
        IN  /\ \A e \in OnTableSet : Succeeded(e)
            /\ Columns(tables, TableT) = cols
            /\ \A e \in OnTableSet : \A c \in Keys(e.stmt) :
                  tables[TableT].cols[c] = NewDataType(e.stmt.Columns[c])
            /\ read.err = NoErr
            /\ read.cols = cols
            /\ read.rows = ExpectedRows(OnTable, cols)

C3_Witness ==
    /\ C3_Case
    /\ Len(OnTable) >= 2
    /\ Keys(OnTable[1].stmt) = {ColA}
    /\ Keys(OnTable[2].stmt) = {ColB}
    /\ RowCount(tables, TableT) = 2

(* C4: a request whose statement fails Validate (empty table name, no     *)
(* columns) is rejected with the validation error and makes no engine     *)
(* call.                                                                  *)
C4_InvalidRejectedBeforeEngine ==
    \A e \in Returned :
        (e.err.kind # NotCalled.kind /\ Validate(e.stmt) # NoErr) =>
            /\ e.err.kind = Validate(e.stmt).kind
            /\ e.nInsert = 0 /\ e.nCreate = 0 /\ e.nAlter = 0

(* C5 as stated: an Insert with a value of another type family than the   *)
(* existing column's type returns an error, executes no DDL and leaves    *)
(* the catalog as it was.                                                 *)
OtherFamily(e) ==
    /\ e.stmt.Table \in DOMAIN e.before
    /\ \E c \in Keys(e.stmt) \cap Columns(e.before, e.stmt.Table) :
          /\ Valid(NewDataType(e.stmt.Columns[c]))
          /\ NewDataType(e.stmt.Columns[c]) # e.before[e.stmt.Table].cols[c]

C5_OtherFamilyRejected ==
    \A e \in Returned :
        OtherFamily(e) =>
            /\ ~Succeeded(e)
            /\ e.nCreate = 0 /\ e.nAlter = 0
            /\ e.after = e.before

(* C5, amended: an Insert with a value the engine cannot convert to the   *)
(* existing column's type returns an error and leaves the row count as it *)
(* was; when all its columns exist it executes no DDL and leaves the      *)
(* catalog as it was.                                                     *)
Unconvertible(e) ==
    /\ e.stmt.Table \in DOMAIN e.before
    /\ \E c \in Keys(e.stmt) \cap Columns(e.before, e.stmt.Table) :
          ~Cast(e.stmt.Columns[c], e.before[e.stmt.Table].cols[c]).ok

C5_UnconvertibleRejected ==
    \A e \in Returned :
        Unconvertible(e) =>
            /\ ~Succeeded(e)
            /\ RowCount(e.after, e.stmt.Table) = RowCount(e.before, e.stmt.Table)
            /\ Keys(e.stmt) \subseteq Columns(e.before, e.stmt.Table) =>
                  /\ e.nCreate = 0 /\ e.nAlter = 0
                  /\ e.after = e.before

C5_Witness ==
    \E e \in Returned :
        /\ Unconvertible(e)
        /\ Keys(e.stmt) \subseteq Columns(e.before, e.stmt.Table)
        /\ e.err.kind = ConversionError(NoName, NoName).kind
        /\ e.nInsert = 1

(* C6: every Insert call returns, whatever the engine answers to its      *)
(* INSERT attempts.                                                       *)
C6_InsertReturns == (pc["w1"] = "lock") ~> (pc["w1"] = "idle")

(* C7: the write lock is held only by an Insert that has not returned;    *)
(* once no Insert is between Lock and return the lock is free and a       *)
(* waiting Insert can take it.                                            *)
C7_LockReleased ==
    /\ \A w \in Writers : ~Critical(w) => writeLock # w
    /\ (\A w \in Writers : ~Critical(w)) => writeLock = None
    /\ \A w \in Writers :
          (pc[w] = "lock" /\ \A v \in Writers : ~Critical(v)) => ENABLED Lock(w)

C7_Witness ==
    /\ Len(returned) >= 1
    /\ returned[1].err.kind = ContextCanceled.kind
    /\ returned[1].nCreate = 1
    /\ \E w \in Writers : w # returned[1].w /\ writeLock = w

(* C8: Store.Query never waits: a reader can always start a query and a   *)
(* started query can always complete, whoever holds the write lock.       *)
C8_ReadsUnserialized ==
    \A r \in Readers :
        /\ rpc[r] = "query" => ENABLED ExecQuery(r)
        /\ rpc[r] # "query" => ENABLED Query(r)

C8_Witness ==
    /\ returned = << >>
    /\ pc["w1"] = "exec" /\ nCreate["w1"] = 1
    /\ rpc["r1"] = "done" /\ rresult["r1"].err = NoErr
    /\ rpc["r2"] = "query"

(* C9: round trip.  Right after a successful Insert of valid-typed values *)
(* into a table that did not exist, select * returns one row whose        *)
(* columns are the inserted names and whose values are the inserted ones. *)
C9_Case(e) ==
    /\ Succeeded(e)
    /\ ValidTyped(e.stmt)
    /\ e.stmt.Table \notin DOMAIN e.before

C9_RoundTrip ==
    \A e \in Returned :
        C9_Case(e) =>
            LET read == StoreQuery(e.after, SelectAll(e.stmt.Table)) IN
            /\ read.err = NoErr
            /\ BagCardinality(read.rows) = 1
            /\ \A row \in DOMAIN read.rows :
                  /\ DOMAIN row = Keys(e.stmt)
                  /\ \A c \in Keys(e.stmt) : row[c] = Stored(e.stmt.Columns[c])

C9_Witness ==
    \E e \in Returned : C9_Case(e) /\ Keys(e.stmt) = {ColA, ColB}

(* C10: the first two Inserts, with the same columns of the same types,   *)
(* into the table that did not exist: both succeed, the first executes    *)
(* the one CREATE TABLE, the second no DDL, and the table has 2 rows.     *)
C10_Case ==
    /\ Len(returned) >= 2
    /\ LET e1 == returned[1]
           e2 == returned[2]
       IN  /\ e1.stmt.Table = TableT /\ e2.stmt.Table = TableT
           /\ TableT \notin DOMAIN e1.before
           /\ Validate(e1.stmt) = NoErr
           /\ ValidTyped(e1.stmt) /\ ValidTyped(e2.stmt)
           /\ Keys(e1.stmt) = Keys(e2.stmt)
           /\ TypeConsistent({e1, e2})
           /\ NotCanceled(e1) /\ NotCanceled(e2)

C10_CreateOnce ==
    C10_Case =>
        LET e1 == returned[1]
            e2 == returned[2]
        IN  /\ Succeeded(e1) /\ Succeeded(e2)
            /\ e1.nCreate = 1 /\ e2.nCreate = 0
            /\ e2.nAlter = 0
            /\ RowCount(e2.after, TableT) = 2

C10_Witness ==
    /\ C10_Case
    /\ Succeeded(returned[2])
    /\ Keys(returned[2].stmt) = {ColA, ColB}

(* C11: an Insert whose column map holds a value of INVALID type returns  *)
(* an error and adds no row, whether or not the table and the column      *)
(* exist.                                                                 *)
HasInvalid(s) == \E c \in Keys(s) : ~Valid(NewDataType(s.Columns[c]))

C11_InvalidNeverPersisted ==
    \A e \in Returned :
        HasInvalid(e.stmt) =>
            /\ ~Succeeded(e)
            /\ RowCount(e.after, e.stmt.Table) = RowCount(e.before, e.stmt.Table)

(* C12: an Insert whose column map holds a value of INVALID type executes *)
(* no CREATE TABLE and no ALTER TABLE ADD COLUMN, and leaves the schema as *)
(* it was when it fails.                                                  *)
Schema(tbls) == [t \in DOMAIN tbls |-> tbls[t].cols]

C12_NoDDLWithInvalid ==
    /\ \A w \in Writers :
          HasInvalid(stmt[w]) =>
              /\ pc[w] \notin {"create", "addcol"}
              /\ nCreate[w] = 0 /\ nAlter[w] = 0
    /\ \A e \in Returned :
          HasInvalid(e.stmt) =>
              /\ e.nCreate = 0 /\ e.nAlter = 0
              /\ ~Succeeded(e) => Schema(e.after) = Schema(e.before)

(* C13: Store.Query with an empty query text returns the validation error *)
(* at once, without an engine call; a non-empty query goes to the engine  *)
(* exactly once and verbatim, and the call returns what the engine        *)
(* answered, its error included, with no retry and no change of the       *)
(* catalog.                                                               *)
ReaderMoved(r) == <<rpc[r], rstmt[r], rresult[r]>> # <<rpc'[r], rstmt'[r], rresult'[r]>>
EngineQueried(r) == rpc[r] = "query" /\ ReaderMoved(r)

C13_QueryStep(r) ==
    /\ (rpc[r] # "query" /\ ReaderMoved(r) /\ rpc'[r] = "done") =>
          /\ rstmt'[r].Query = ""
          /\ rresult'[r].err.kind = "invalid QueryStatement: Query empty"
          /\ rresult'[r].rows = EmptyBag
          /\ tables' = tables
    /\ (rpc[r] # "query" /\ ReaderMoved(r) /\ rpc'[r] # "done") =>
          /\ rpc'[r] = "query"
          /\ rstmt'[r].Query # ""
          /\ tables' = tables
    /\ EngineQueried(r) =>
          /\ rpc'[r] = "done"
          /\ rstmt'[r] = rstmt[r]
          /\ rresult'[r] = StoreQuery(tables, rstmt[r])
          /\ rresult'[r].err.kind = EngineQuery(tables, rstmt[r]).err.kind
          /\ tables' = tables

C13_QueryOnceVerbatim == [][\A r \in Readers : C13_QueryStep(r)]_vars

C13_Witness ==
    /\ rpc["r1"] = "done" /\ rstmt["r1"] = EmptyQueryStatement
    /\ rresult["r1"].err.kind = "invalid QueryStatement: Query empty"
    /\ rpc["r2"] = "done" /\ rstmt["r2"] = SelectAll(TableT)
    /\ rresult["r2"].err.kind = CatalogTableMissing(TableT).kind
    /\ TableT \notin DOMAIN tables

(* C14: each Insert adds at most one row.  A call that returns success    *)
(* added exactly one row to its table, also when earlier attempts failed  *)
(* and were resolved by DDL; a call that returns an error added none; no  *)
(* other table's rows change.                                             *)
RowsAdded(e, t) == RowCount(e.after, t) - RowCount(e.before, t)

C14_AtMostOneRow ==
    \A e \in Returned :
        e.stmt # NoStmt =>
            /\ RowsAdded(e, e.stmt.Table) = (IF Succeeded(e) THEN 1 ELSE 0)
            /\ Succeeded(e) => e.nInsert = e.nCreate + e.nAlter + 1
            /\ \A t \in (DOMAIN e.after \cup DOMAIN e.before) \ {e.stmt.Table} :
                  RowsAdded(e, t) = 0

C14_Witness ==
    /\ Len(returned) = 2
    /\ Succeeded(returned[1]) /\ returned[1].nInsert = 2 /\ returned[1].nCreate = 1
    /\ Succeeded(returned[2]) /\ returned[2].nInsert = 2 /\ returned[2].nAlter = 1
    /\ RowsAdded(returned[2], TableT) = 1
    /\ RowCount(tables, TableT) = 2

(* C15: unrecoverable failures are terminal.  DDL is executed only after  *)
(* an INSERT error that matches a pattern; an INSERT error that matches   *)
(* neither pattern, or a builder error, is returned with the failed       *)
(* INSERT as the call's last engine call; a failed DDL exec is returned   *)
(* with that DDL as the last engine call, no INSERT re-issued.            *)
BuilderErrors ==
    {"create Table: invalid data type for column",
     "add column: invalid data type for column",
     "add column: column not present in InsertStatement"}
UnclassifiedErrors ==
    {ParserError(NoName).kind, ConversionError(NoName, NoName).kind, ContextCanceled.kind}

C15_FailuresTerminal ==
    /\ \A w \in Writers :
          /\ pc[w] = "exec" => nInsert[w] = nCreate[w] + nAlter[w]
          /\ pc[w] = "create" =>
                /\ stmt[w].Table \notin DOMAIN tables
                /\ nInsert[w] = nCreate[w] + nAlter[w] + 1
          /\ pc[w] = "addcol" =>
                /\ stmt[w].Table \in DOMAIN tables
                /\ DOMAIN ddl[w].cols \cap Columns(tables, stmt[w].Table) = {}
                /\ nInsert[w] = nCreate[w] + nAlter[w] + 1
    /\ \A e \in Returned :
          /\ (~Succeeded(e) /\ e.err.op = "inserting values") =>
                /\ e.err.kind \in UnclassifiedErrors
                /\ e.nInsert = e.nCreate + e.nAlter + 1
          /\ e.err.kind \in BuilderErrors =>
                /\ e.err.op = ""
                /\ e.nInsert = e.nCreate + e.nAlter + 1
          /\ (~Succeeded(e) /\ e.err.op = "creating Table") =>
                /\ e.nInsert = e.nCreate + e.nAlter
                /\ e.nCreate + e.nAlter >= 1
          /\ (~Succeeded(e) /\ e.stmt # NoStmt) =>
                \/ e.err.op \in {"inserting values", "creating Table"}
                \/ e.err.kind \in BuilderErrors

C15_Witness ==
    \E e1, e2 \in Returned :
        /\ e1.err.op = "creating Table" /\ e1.nInsert = 1 /\ e1.nCreate = 1
        /\ e2.err.op = "inserting values" /\ e2.err.kind = ParserError(NoName).kind
        /\ e2.nInsert = 1 /\ e2.nCreate = 0 /\ e2.nAlter = 0

(* C16 as stated: an Insert of valid-typed values that is not canceled    *)
(* succeeds after exactly one CREATE TABLE covering its columns and no    *)
(* ADD COLUMN when the table did not exist, and after exactly one ADD     *)
(* COLUMN per column the table lacks when it existed, each DDL followed   *)
(* by one re-issue of the INSERT.                                         *)
Lacking(e) == Keys(e.stmt) \ Columns(e.before, e.stmt.Table)

GapClosed(e) ==
    IF e.stmt.Table \notin DOMAIN e.before
    THEN /\ e.nCreate = 1 /\ e.nAlter = 0 /\ e.nInsert = 2
         /\ Columns(e.after, e.stmt.Table) = Keys(e.stmt)
    ELSE /\ e.nCreate = 0
         /\ e.nAlter = Cardinality(Lacking(e))
         /\ e.nInsert = e.nAlter + 1
         /\ Columns(e.after, e.stmt.Table) =
               Columns(e.before, e.stmt.Table) \cup Keys(e.stmt)

C16_Case(e) ==
    /\ Validate(e.stmt) = NoErr
    /\ ValidTyped(e.stmt)
    /\ NotCanceled(e)

C16_WorkBoundedByGap ==
    \A e \in Returned : C16_Case(e) => (GapClosed(e) /\ Succeeded(e))

(* C16, amended: the Insert executes at most that DDL (at most one CREATE *)
(* TABLE and no ADD COLUMN into a table that did not exist, no CREATE      *)
(* TABLE and at most one ADD COLUMN per lacking column otherwise), each    *)
(* followed by at most one re-issue of the same INSERT; it has executed    *)
(* exactly that DDL when it succeeds, and it fails only on an INSERT error *)
(* that matches neither pattern or on a failed DDL exec; it succeeds when  *)
(* its values are convertible to the types of the existing columns and no  *)
(* exec is canceled.                                                       *)
Convertible(e) ==
    \A c \in Keys(e.stmt) \cap Columns(e.before, e.stmt.Table) :
        Cast(e.stmt.Columns[c], e.before[e.stmt.Table].cols[c]).ok

C16_WorkBoundedByGapOnSuccess ==
    /\ \A e \in Returned :
          (Validate(e.stmt) = NoErr /\ ValidTyped(e.stmt)) =>
              /\ IF e.stmt.Table \notin DOMAIN e.before
                 THEN e.nCreate <= 1 /\ e.nAlter = 0
                 ELSE e.nCreate = 0 /\ e.nAlter <= Cardinality(Lacking(e))
              /\ e.nInsert <= e.nCreate + e.nAlter + 1
              /\ Succeeded(e) => GapClosed(e)
              /\ ~Succeeded(e) =>
                    \/ /\ e.err.op = "inserting values"
                       /\ ~missingTableRegex(e.err) /\ ~missingColumnRegex(e.err)
                    \/ e.err.op = "creating Table"
              /\ (Convertible(e) /\ NotCanceled(e)
                    /\ RegexWord(e.stmt.Table) /\ \A c \in Keys(e.stmt) : RegexWord(c))
                    => Succeeded(e)
    /\ \A w \in Writers :
          Critical(w) => \E o \in KeyOrders(stmt[w]) : query[w] = InsertQuery(stmt[w], o)

C16_Witness ==
    \E e \in Returned :
        /\ C16_Case(e)
        /\ e.stmt.Table \in DOMAIN e.before
        /\ Cardinality(Lacking(e)) = 2
        /\ e.nAlter = 2 /\ e.nInsert = 3
        /\ Succeeded(e)

(* C17: NewDataType maps a value of every dynamic type as the dispatch    *)
(* table says: floats of 64 or 32 bit to DOUBLE, signed integers of every *)
(* width to INTEGER, strings to VARCHAR, booleans to BOOLEAN, everything  *)
(* else to INVALID.                                                       *)
SignedIntegerKinds == {"int", "int8", "int16", "int32", "int64"}

DispatchTable(kind) ==
    CASE kind \in {"float64", "float32"} -> DOUBLE
      [] kind \in SignedIntegerKinds -> INTEGER
      [] kind = "string" -> VARCHAR
      [] kind = "bool" -> BOOLEAN_
      [] OTHER -> INVALID

C17_InferTypeTotal ==
    /\ \A w \in Writers :
          pc[w] = "create" =>
              \A c \in Keys(stmt[w]) : ddl[w].cols[c] = DispatchTable(stmt[w].Columns[c].k)
    /\ \A e \in Returned :
          e.err.kind = "create Table: invalid data type for column" =>
              \E c \in Keys(e.stmt) : DispatchTable(e.stmt.Columns[c].k) = INVALID

(* C18: no missing-table or missing-column error of the engine is left    *)
(* unclassified, whatever the accepted table and column names (digits     *)
(* included), so an Insert of valid-typed, convertible values that is not *)
(* canceled is recovered by DDL and succeeds.                             *)
MissingErrors ==
    {CatalogTableMissing(NoName).kind, BinderColumnMissing(NoName, NoName).kind}

C18_ClassifierRecognisesNames ==
    \A e \in Returned :
        /\ ~(e.err.op = "inserting values" /\ e.err.kind \in MissingErrors)
        /\ (Validate(e.stmt) = NoErr /\ ValidTyped(e.stmt) /\ Convertible(e)
              /\ NotCanceled(e)) => Succeeded(e)

(* C19: the INSERT built for a call has a column list, a placeholder list *)
(* and a parameter list of length len(Columns); every column name is      *)
(* listed exactly once; the i-th parameter is the value of the i-th       *)
(* listed column, whatever the iteration order; the builder returns no    *)
(* error, so every call reaches the engine.                               *)
C19_InsertBuilderCorrespondence ==
    /\ \A w \in Writers :
          Critical(w) =>
              LET q == query[w]
                  n == Cardinality(Keys(stmt[w]))
              IN  /\ q.err = NoErr
                  /\ q.table = stmt[w].Table
                  /\ Len(q.keys) = n /\ Len(q.placeholders) = n /\ Len(q.values) = n
                  /\ {q.keys[i] : i \in 1..n} = Keys(stmt[w])
                  /\ \A i, j \in 1..n : q.keys[i] = q.keys[j] => i = j
                  /\ \A i \in 1..n :
                        /\ q.placeholders[i] = "?"
                        /\ q.values[i] = stmt[w].Columns[q.keys[i]]
    /\ \A e \in Returned : e.stmt # NoStmt => e.nInsert >= 1

C19_Witness ==
    \E w \in Writers :
        /\ pc[w] = "exec"
        /\ query[w].keys = <<ColB, ColA>>
        /\ query[w].values = <<NilV, IntV>>

(* C20: every CREATE TABLE and ALTER TABLE ADD COLUMN sent to the engine  *)
(* declares each of its columns with one of the four engine types, the    *)
(* one inferred from the column's value in the statement; a CREATE TABLE  *)
(* for a statement with an INVALID-typed value is not sent, not even for  *)
(* the valid columns; no column of the catalog has another type.          *)
EngineTypes == {VARCHAR, DOUBLE, INTEGER, BOOLEAN_}

DeclaresInferred(w, cs) ==
    /\ ddl[w].table = stmt[w].Table
    /\ DOMAIN ddl[w].cols = cs
    /\ cs \subseteq Keys(stmt[w])
    /\ \A c \in cs :
          /\ ddl[w].cols[c] \in EngineTypes
          /\ ddl[w].cols[c] = NewDataType(stmt[w].Columns[c])

C20_InvalidNeverInDDL ==
    /\ \A w \in Writers :
          /\ pc[w] = "create" =>
                /\ ddl[w].sql = "CREATE TABLE IF NOT EXISTS"
                /\ DeclaresInferred(w, Keys(stmt[w]))
          /\ pc[w] = "addcol" =>
                /\ ddl[w].sql = "ALTER TABLE ADD COLUMN"
                /\ Cardinality(DOMAIN ddl[w].cols) = 1
                /\ DeclaresInferred(w, DOMAIN ddl[w].cols)
          /\ HasInvalid(stmt[w]) => (pc[w] # "create" /\ nCreate[w] = 0)
    /\ \A e \in Returned : HasInvalid(e.stmt) => e.nCreate = 0
    /\ \A t \in DOMAIN tables : \A c \in DOMAIN tables[t].cols :
          tables[t].cols[c] \in EngineTypes

C20_Witness ==
    /\ \E e \in Returned :
          /\ e.err.kind = "create Table: invalid data type for column"
          /\ e.stmt.Columns = (ColA :> IntV) @@ (ColB :> NilV)
          /\ e.nInsert = 1 /\ e.nCreate = 0
          /\ e.after = << >>
    /\ \E w \in Writers :
          /\ pc[w] = "create"
          /\ ddl[w].cols = (ColA :> INTEGER) @@ (ColB :> VARCHAR)

====
